---- MODULE Spec2Model ----
(***************************************************************************)
(* A model of adp.py: PayCheckFetcher and the cli command.                 *)
(*                                                                         *)
(* Strings (pay dates, URLs, paths) are sequences of one-character         *)
(* strings, so that startswith, replace, split, format, os.path.join and   *)
(* the ordering used by sorted() are computed the way Python computes      *)
(* them.  The filesystem is a function from the paths that exist to their  *)
(* content.                                                                *)
(***************************************************************************)
EXTENDS Integers, Sequences, FiniteSets, TLC

VARIABLES
    pc,                   \* where the modelled call stands
    fs,                   \* filesystem: existing path -> content
    session,              \* "none" | "open" | "closed" (requests.Session)
    cookies,              \* names of the cookies in session.cookies
    requests,             \* HTTP requests issued so far, in order
    credentials,          \* <<username, password>> held by the fetcher
    paystub_url_by_date,  \* the dict: sequence of <<date, url>>, insertion order
    need,                 \* list returned by get_needed_paystubs()
    idx,                  \* position of the for loop of download_needed in need
    out,                  \* lines printed so far
    exc,                  \* exception that ended the call, or "none"
    retval,               \* return value of cli
    fs0,                  \* history: fs when the modelled call began
    fsBefore,             \* history: fs as the last existence check or direct call saw it
    downloads,            \* history: one record per download GET, in order
    arg,                  \* argument of the function called directly
    ret,                  \* its return value
    prev,                 \* history: <<arg, ret>> of the previous direct call
    calls                 \* number of direct calls made

vars == <<pc, fs, session, cookies, requests, credentials, paystub_url_by_date,
          need, idx, out, exc, retval, fs0, fsBefore, downloads, arg, ret, prev, calls>>

----------------------------------------------------------------------------
(* Bounds *)

MaxStatements == 3
MaxUrlLen == 6
MaxCalls == 3

----------------------------------------------------------------------------
(* Strings *)

\* Code points of the characters used, as Python's str comparison orders them.
Ord ==
    [c \in {"\n", "-", ".", "/", "0", "1", "2", "3", "5", ":",
            "a", "c", "d", "f", "h", "l", "m", "o", "p", "s", "t", "u", "y"} |->
        CASE c = "\n" -> 10 [] c = "-" -> 45 [] c = "." -> 46 [] c = "/" -> 47
          [] c = "0" -> 48  [] c = "1" -> 49 [] c = "2" -> 50 [] c = "3" -> 51
          [] c = "5" -> 53  [] c = ":" -> 58
          [] c = "a" -> 97  [] c = "c" -> 99  [] c = "d" -> 100 [] c = "f" -> 102
          [] c = "h" -> 104 [] c = "l" -> 108 [] c = "m" -> 109 [] c = "o" -> 111
          [] c = "p" -> 112 [] c = "s" -> 115 [] c = "t" -> 116 [] c = "u" -> 117
          [] c = "y" -> 121]

\* str.startswith
StartsWith(s, p) ==
    /\ Len(s) >= Len(p)
    /\ SubSeq(s, 1, Len(p)) = p

RECURSIVE StrLess(_, _)
\* a < b for two str
StrLess(a, b) ==
    IF a = <<>> THEN b # <<>>
    ELSE IF b = <<>> THEN FALSE
    ELSE IF Head(a) = Head(b) THEN StrLess(Tail(a), Tail(b))
    ELSE Ord[Head(a)] < Ord[Head(b)]

RECURSIVE Replace(_, _, _)
\* str.replace(old, new): every non-overlapping occurrence, left to right
Replace(s, old, new) ==
    IF Len(s) < Len(old) THEN s
    ELSE IF StartsWith(s, old)
         THEN new \o Replace(SubSeq(s, Len(old) + 1, Len(s)), old, new)
         ELSE <<Head(s)>> \o Replace(Tail(s), old, new)

RECURSIVE Split(_, _)
\* str.split(sep) for a one-character separator
Split(s, sep) ==
    IF s = <<>> THEN << <<>> >>
    ELSE IF Head(s) = sep THEN << <<>> >> \o Split(Tail(s), sep)
    ELSE LET rest == Split(Tail(s), sep)
         IN  << <<Head(s)>> \o Head(rest) >> \o Tail(rest)

RECURSIVE Format(_, _)
\* template.format(*args) for a template whose only fields are '{}'
Format(t, args) ==
    IF t = <<>> THEN <<>>
    ELSE IF StartsWith(t, <<"{", "}">>)
         THEN Head(args) \o Format(SubSeq(t, 3, Len(t)), Tail(args))
         ELSE <<Head(t)>> \o Format(Tail(t), args)

Digits == <<"0", "1", "2", "3", "4", "5", "6", "7", "8", "9">>

RECURSIVE IntToStr(_)
\* str(n) for n >= 0
IntToStr(n) ==
    IF n < 10 THEN <<Digits[n + 1]>>
    ELSE IntToStr(n \div 10) \o <<Digits[(n % 10) + 1]>>

\* sub in s
Contains(s, sub) ==
    \E i \in 1..(Len(s) - Len(sub) + 1) : SubSeq(s, i, i + Len(sub) - 1) = sub

\* os.path.join(a, b) on POSIX
PathJoin(a, b) ==
    IF StartsWith(b, <<"/">>) THEN b
    ELSE IF a = <<>> \/ a[Len(a)] = "/" THEN a \o b
    ELSE a \o <<"/">> \o b

----------------------------------------------------------------------------
(* Program constants *)

\* 'https://agateway.adp.com/siteminderagent/forms/login.fcc'
LOGIN_URL ==
    <<"h", "t", "t", "p", "s", ":", "/", "/", "a", "g", "a", "t", "e", "w",
      "a", "y", ".", "a", "d", "p", ".", "c", "o", "m", "/", "s", "i", "t",
      "e", "m", "i", "n", "d", "e", "r", "a", "g", "e", "n", "t", "/", "f",
      "o", "r", "m", "s", "/", "l", "o", "g", "i", "n", ".", "f", "c", "c">>

\* 'https://my.adp.com/static/redbox/'
LANDING_URL ==
    <<"h", "t", "t", "p", "s", ":", "/", "/", "m", "y", ".", "a", "d", "p",
      ".", "c", "o", "m", "/", "s", "t", "a", "t", "i", "c", "/", "r", "e",
      "d", "b", "o", "x", "/">>

\* 'https://my.adp.com/redboxapi/identity/v1/self'
UID_LOOKUP_URL ==
    <<"h", "t", "t", "p", "s", ":", "/", "/", "m", "y", ".", "a", "d", "p",
      ".", "c", "o", "m", "/", "r", "e", "d", "b", "o", "x", "a", "p", "i",
      "/", "i", "d", "e", "n", "t", "i", "t", "y", "/", "v", "1", "/", "s",
      "e", "l", "f">>

\* 'https://my.adp.com/v1_0/O/A/payStatements'
PAYSTUB_LIST_URL ==
    <<"h", "t", "t", "p", "s", ":", "/", "/", "m", "y", ".", "a", "d", "p",
      ".", "c", "o", "m", "/", "v", "1", "_", "0", "/", "O", "/", "A", "/",
      "p", "a", "y", "S", "t", "a", "t", "e", "m", "e", "n", "t", "s">>

\* '/l2'
RelativePrefix == <<"/", "l", "2">>
\* 'https://my.adp.com'
PortalHost == <<"h", "t", "t", "p", "s", ":", "/", "/",
                "m", "y", ".", "a", "d", "p", ".", "c", "o", "m">>
\* '{}.pdf'
FileNameTemplate ==
    <<"{", "}", ".", "p", "d", "f">>

\* 'Got back {} when trying to fetch {} at {}'
GotBackTemplate ==
    <<"G", "o", "t", " ", "b", "a", "c", "k", " ", "{", "}", " ", "w", "h",
      "e", "n", " ", "t", "r", "y", "i", "n", "g", " ", "t", "o", " ", "f",
      "e", "t", "c", "h", " ", "{", "}", " ", "a", "t", " ", "{", "}">>

\* 'Downloaded {}'
DownloadedTemplate ==
    <<"D", "o", "w", "n", "l", "o", "a", "d", "e", "d", " ", "{", "}">>

\* "Couldn't find creds!"
CouldntFindCreds ==
    <<"C", "o", "u", "l", "d", "n", "'", "t", " ", "f", "i", "n", "d", " ",
      "c", "r", "e", "d", "s", "!">>

\* './.adp-pass', the default of --creds
DefaultCreds ==
    <<".", "/", ".", "a", "d", "p", "-", "p", "a", "s", "s">>

\* the default of --limit
DefaultLimit == 30
\* the status download_paystub accepts
StatusOk == 200

----------------------------------------------------------------------------
(* PayCheckFetcher: the pure parts *)

\* the host put in front of the relative URL
TransformPrepend(url) ==
    IF ~StartsWith(url, RelativePrefix) THEN url ELSE PortalHost \o url

\* a rewrite that forgets the startswith guard
TransformUnguarded(url) ==
    Replace(url, RelativePrefix, PortalHost)

_transform_download_url(url) ==
    IF ~StartsWith(url, RelativePrefix) THEN url
    ELSE Replace(url, RelativePrefix, PortalHost)

_expected_file_name(date) == Format(FileNameTemplate, <<date>>)

\* os.path.exists
os_path_exists(path, files) == path \in DOMAIN files

\* only the working directory is looked at
HaveLocallyCwdOnly(date, files) ==
    os_path_exists(_expected_file_name(date), files)

\* only the year folder is looked at
HaveLocallyYearOnly(date, files) ==
    os_path_exists(PathJoin(Head(Split(date, "-")), _expected_file_name(date)), files)

\* the two existence checks of get_needed_paystubs for one date
HaveLocally(date, files) ==
    LET artifact == _expected_file_name(date)
        year == Head(Split(date, "-"))
    IN  \/ os_path_exists(artifact, files)
        \/ os_path_exists(PathJoin(year, artifact), files)

\* list < list, as sorted() compares the [date, url] items
ItemLess(a, b) ==
    IF a[1] # b[1] THEN StrLess(a[1], b[1]) ELSE StrLess(a[2], b[2])

RECURSIVE InsertSorted(_, _)
InsertSorted(x, l) ==
    IF l = <<>> THEN <<x>>
    ELSE IF ItemLess(x, Head(l)) THEN <<x>> \o l
    ELSE <<Head(l)>> \o InsertSorted(x, Tail(l))

RECURSIVE SortItems(_)
SortItems(l) ==
    IF l = <<>> THEN <<>> ELSE InsertSorted(Head(l), SortItems(Tail(l)))

\* the list left in iteration order
Unsorted(l) == l

\* sorted(need)
sorted(l) == SortItems(l)

RECURSIVE NeedInOrder(_, _)
\* the loop of get_needed_paystubs over the dict's items, in iteration order
NeedInOrder(items, files) ==
    IF items = <<>> THEN <<>>
    ELSE IF HaveLocally(Head(items)[1], files) THEN NeedInOrder(Tail(items), files)
    ELSE <<Head(items)>> \o NeedInOrder(Tail(items), files)

get_needed_paystubs(items, files) == sorted(NeedInOrder(items, files))

RECURSIVE DictSet(_, _, _)
\* d[key] = value on a dict kept as its items in insertion order
DictSet(d, key, value) ==
    IF d = <<>> THEN << <<key, value>> >>
    ELSE IF Head(d)[1] = key THEN << <<key, value>> >> \o Tail(d)
    ELSE <<Head(d)>> \o DictSet(Tail(d), key, value)

RECURSIVE DictOf(_)
\* the dict comprehension of get_paystub_urls over info['payStatements']
DictOf(statements) ==
    IF statements = <<>> THEN <<>>
    ELSE LET n == Len(statements)
         IN  DictSet(DictOf(SubSeq(statements, 1, n - 1)),
                     statements[n][1], statements[n][2])

----------------------------------------------------------------------------
(* Inputs *)

\* '2022-12-30'
Date1 ==
    <<"2", "0", "2", "2", "-", "1", "2", "-", "3", "0">>

\* '2023-01-15'
Date2 ==
    <<"2", "0", "2", "3", "-", "0", "1", "-", "1", "5">>

\* '2023-02-15'
Date3 ==
    <<"2", "0", "2", "3", "-", "0", "2", "-", "1", "5">>

Dates == {Date1, Date2, Date3}

\* '/l2/doc1'
UrlRelative ==
    <<"/", "l", "2", "/", "d", "o", "c", "1">>

\* 'https://my.adp.com/doc2'
UrlAbsolute ==
    <<"h", "t", "t", "p", "s", ":", "/", "/", "m", "y", ".", "a", "d", "p",
      ".", "c", "o", "m", "/", "d", "o", "c", "2">>

Urls == {UrlRelative, UrlAbsolute}

\* the part of a date before its first '-'
YearOf(date) ==
    LET dashes == {i \in 1..Len(date) : date[i] = "-"}
        stop == IF dashes = {} THEN Len(date) + 1
                ELSE CHOOSE i \in dashes : \A j \in dashes : i <= j
    IN  SubSeq(date, 1, stop - 1)

\* '<date>.pdf' in the working directory
CwdPath(date) == date \o <<".", "p", "d", "f">>

\* '<year>/<date>.pdf'
YearPath(date) == YearOf(date) \o <<"/">> \o CwdPath(date)

\* '2022/2023-01-15.pdf': a paystub filed under another year
StrayPath ==
    <<"2", "0", "2", "2", "/", "2", "0", "2", "3", "-", "0", "1", "-", "1",
      "5", ".", "p", "d", "f">>

CandidatePaths == {CwdPath(d) : d \in Dates} \cup {YearPath(d) : d \in Dates}

\* what the files on disk hold before the program runs
OldContent == <<"o", "l", "d">>

Filesystems(paths) == UNION {[S -> {OldContent}] : S \in SUBSET paths}

\* the credentials file: 'u', 'u\np\n'
CredsContents == {<<"u">>, <<"u", "\n", "p", "\n">>}

\* each paystub filed at most once, with or without a credentials file
RunFilesystems ==
    {f \in Filesystems(CandidatePaths \cup {DefaultCreds}) :
        \A d \in Dates : ~(CwdPath(d) \in DOMAIN f /\ YearPath(d) \in DOMAIN f)}
    \cup
    {[p \in DOMAIN f \cup {DefaultCreds} |->
            IF p = DefaultCreds THEN c ELSE f[p]] :
        f \in {g \in Filesystems(CandidatePaths) :
                \A d \in Dates :
                    ~(CwdPath(d) \in DOMAIN g /\ YearPath(d) \in DOMAIN g)},
        c \in CredsContents}

\* info['payStatements']: <<payDate, href>> of each statement
Listings ==
    UNION {[1..n -> Dates \X Urls] : n \in 0..MaxStatements}

\* response bodies of a download
Bodies == {<<"p">>, <<"p", "d", "f">>}
RunBodies == {<<"p", "d", "f">>}

\* response statuses of a download
Statuses == {200, 201, 404, 500}
RunStatuses == {200, 404}

UrlChars == {"/", "l", "2"}

UrlInputs ==
    UNION {[1..n -> UrlChars] : n \in 0..MaxUrlLen} \cup Urls

----------------------------------------------------------------------------
(* PayCheckFetcher and cli: the steps *)

\* get_uid called before get_all_the_cookies
NextStageSwapped(stage) ==
    CASE stage = "log_in" -> "get_uid"
      [] stage = "get_uid" -> "get_all_the_cookies"
      [] stage = "get_all_the_cookies" -> "get_paystub_urls"
      [] stage = "get_paystub_urls" -> "get_needed_paystubs"

\* the order of the calls of download_needed
NextStage(stage) ==
    CASE stage = "log_in" -> "get_all_the_cookies"
      [] stage = "get_all_the_cookies" -> "get_uid"
      [] stage = "get_uid" -> "get_paystub_urls"
      [] stage = "get_paystub_urls" -> "get_needed_paystubs"

\* an exception leaves the with block of cli, which closes the session
Raise(e) ==
    /\ exc' = e
    /\ pc' = "aborted"
    /\ session' = "closed"

\* the existence check left out
CredsFoundAlways(path, files) == TRUE

\* the existence check of cli
CredsFound(path, files) == os_path_exists(path, files)

cli ==
    /\ pc = "cli"
    /\ IF ~CredsFound(DefaultCreds, fs)
       THEN /\ out' = Append(out, CouldntFindCreds)
            /\ retval' = -1
            /\ pc' = "done"
            /\ UNCHANGED <<exc, credentials, session>>
       ELSE IF DefaultCreds \notin DOMAIN fs
       THEN \* open(creds) of a file that is not there
            /\ exc' = "FileNotFoundError"
            /\ pc' = "aborted"
            /\ UNCHANGED <<out, retval, credentials, session>>
       ELSE LET lines == Split(fs[DefaultCreds], "\n")
                picked == SubSeq(lines, 1, IF Len(lines) < 2 THEN Len(lines) ELSE 2)
            IN  IF Len(picked) # 2
                THEN \* unpacking into username, password
                     /\ exc' = "ValueError"
                     /\ pc' = "aborted"
                     /\ UNCHANGED <<out, retval, credentials, session>>
                ELSE /\ credentials' = picked
                     /\ session' = "open"
                     /\ pc' = "log_in"
                     /\ UNCHANGED <<out, retval, exc>>
    /\ UNCHANGED <<fs, cookies, requests, paystub_url_by_date, need, idx,
                   fs0, fsBefore, downloads, arg, ret, prev, calls>>

log_in ==
    /\ pc = "log_in"
    /\ requests' = Append(requests,
            [method |-> "POST", url |-> LOGIN_URL,
             data |-> [user |-> credentials[1], password |-> credentials[2],
                       target |-> LANDING_URL]])
    /\ \/ Raise("ConnectionError") /\ cookies' = cookies
       \/ \* no look at the response: accepted or not, the run goes on
          /\ \E granted \in SUBSET {"FORMCRED"} : cookies' = cookies \cup granted
          /\ pc' = NextStage("log_in")
          /\ UNCHANGED <<exc, session>>
    /\ UNCHANGED <<fs, credentials, paystub_url_by_date, need, idx, out, retval,
                   fs0, fsBefore, downloads, arg, ret, prev, calls>>

get_all_the_cookies ==
    /\ pc = "get_all_the_cookies"
    /\ requests' = Append(requests, [method |-> "GET", url |-> LANDING_URL])
    /\ \/ Raise("ConnectionError") /\ cookies' = cookies
       \/ /\ cookies' = cookies \cup {"SMSESSION"}
          /\ pc' = NextStage("get_all_the_cookies")
          /\ UNCHANGED <<exc, session>>
    /\ UNCHANGED <<fs, credentials, paystub_url_by_date, need, idx, out, retval,
                   fs0, fsBefore, downloads, arg, ret, prev, calls>>

get_uid ==
    /\ pc = "get_uid"
    /\ requests' = Append(requests, [method |-> "GET", url |-> UID_LOOKUP_URL])
    /\ \/ Raise("ConnectionError") /\ cookies' = cookies
       \/ \* json.loads on a body that is no JSON
          Raise("JSONDecodeError") /\ cookies' = cookies
       \/ \* info['associateoid'] missing
          Raise("KeyError") /\ cookies' = cookies
       \/ /\ cookies' = cookies \cup {"idtoken", "ADPLangLocalCookie"}
          /\ pc' = NextStage("get_uid")
          /\ UNCHANGED <<exc, session>>
    /\ UNCHANGED <<fs, credentials, paystub_url_by_date, need, idx, out, retval,
                   fs0, fsBefore, downloads, arg, ret, prev, calls>>

get_paystub_urls ==
    /\ pc = "get_paystub_urls"
    /\ requests' = Append(requests,
            [method |-> "GET", url |-> PAYSTUB_LIST_URL,
             params |-> [adjustments |-> "yes", numberoflastpaydates |-> DefaultLimit]])
    /\ \/ Raise("ConnectionError") /\ UNCHANGED paystub_url_by_date
       \/ Raise("JSONDecodeError") /\ UNCHANGED paystub_url_by_date
       \/ \* 'payStatements', 'payDate', 'statementImageUri' or 'href' missing
          Raise("KeyError") /\ UNCHANGED paystub_url_by_date
       \/ /\ \E statements \in Listings : paystub_url_by_date' = DictOf(statements)
          /\ pc' = NextStage("get_paystub_urls")
          /\ UNCHANGED <<exc, session>>
    /\ UNCHANGED <<fs, cookies, credentials, need, idx, out, retval,
                   fs0, fsBefore, downloads, arg, ret, prev, calls>>

\* download_needed evaluating self.get_needed_paystubs() for its loop
needed_list ==
    /\ pc = "get_needed_paystubs"
    /\ need' = get_needed_paystubs(paystub_url_by_date, fs)
    /\ fsBefore' = fs
    /\ idx' = 1
    /\ IF need' = <<>>
       THEN pc' = "done" /\ session' = "closed"
       ELSE pc' = "download_paystub" /\ session' = session
    /\ UNCHANGED <<fs, cookies, requests, credentials, paystub_url_by_date, out,
                   exc, retval, fs0, downloads, arg, ret, prev, calls>>

\* any status below 400 taken for a success
StatusAcceptedBelow400(status) == status < 400

\* response.status_code != 200, negated
StatusAccepted(status) == status = StatusOk

\* a status that is not accepted raised as an error
BadStatusRaises(status, date, url) ==
    [line |-> Format(GotBackTemplate, <<IntToStr(status), date, url>>),
     exc |-> "HTTPError"]

\* the branch taken on a status that is not accepted: print and return
BadStatusOutcome(status, date, url) ==
    [line |-> Format(GotBackTemplate, <<IntToStr(status), date, url>>),
     exc |-> "none"]

\* open(name, 'ab')
OpenAb(files, name) ==
    [p \in DOMAIN files \cup {name} |-> IF p \in DOMAIN files THEN files[p] ELSE <<>>]

\* open(name, 'wb')
OpenWb(files, name) ==
    [p \in DOMAIN files \cup {name} |-> IF p = name THEN <<>> ELSE files[p]]

\* out_f.write(data), as shutil.copyfileobj calls it
WriteTo(files, name, data) ==
    [files EXCEPT ![name] = @ \o data]

\* download_paystub(date, url); the server answers with a status of statusSet
\* and, on 200, a body of bodySet, or the connection breaks
download_paystub(date, url, statusSet, bodySet) ==
    LET u == _transform_download_url(url)
    IN  /\ requests' = Append(requests, [method |-> "GET", url |-> u, stream |-> TRUE])
        /\ \/ \* session.get raises
              /\ exc' = "ConnectionError"
              /\ downloads' = Append(downloads,
                    [date |-> date, url |-> u, status |-> 0, body |-> <<>>])
              /\ UNCHANGED <<fs, out>>
           \/ \E status \in statusSet :
                /\ ~StatusAccepted(status)
                /\ downloads' = Append(downloads,
                      [date |-> date, url |-> u, status |-> status, body |-> <<>>])
                /\ out' = Append(out, BadStatusOutcome(status, date, u).line)
                /\ exc' = BadStatusOutcome(status, date, u).exc
                /\ fs' = fs
           \/ \E status \in statusSet, body \in bodySet :
              \E n \in 0..Len(body) :
                /\ StatusAccepted(status)
                /\ downloads' = Append(downloads,
                      [date |-> date, url |-> u, status |-> status, body |-> body])
                /\ LET out_f_name == _expected_file_name(date)
                   IN  fs' = WriteTo(OpenWb(fs, out_f_name), out_f_name,
                                     SubSeq(body, 1, n))
                /\ IF n = Len(body)
                   THEN /\ out' = Append(out,
                              Format(DownloadedTemplate, <<_expected_file_name(date)>>))
                        /\ exc' = "none"
                   ELSE \* the stream breaks under shutil.copyfileobj
                        /\ out' = out
                        /\ exc' = "ConnectionError"

\* one turn of the loop of download_needed
download_next ==
    /\ pc = "download_paystub"
    /\ download_paystub(need[idx][1], need[idx][2], RunStatuses, RunBodies)
    /\ IF exc' # "none"
       THEN pc' = "aborted" /\ session' = "closed" /\ idx' = idx
       ELSE /\ idx' = idx + 1
            /\ IF idx' > Len(need)
               THEN pc' = "done" /\ session' = "closed"
               ELSE pc' = "download_paystub" /\ session' = session
    /\ UNCHANGED <<cookies, credentials, paystub_url_by_date, need, retval,
                   fs0, fsBefore, arg, ret, prev, calls>>

InitRun ==
    /\ pc = "cli"
    /\ fs \in RunFilesystems
    /\ fs0 = fs
    /\ fsBefore = fs
    /\ session = "none"
    /\ cookies = {}
    /\ requests = <<>>
    /\ credentials = <<>>
    /\ paystub_url_by_date = <<>>
    /\ need = <<>>
    /\ idx = 0
    /\ out = <<>>
    /\ exc = "none"
    /\ retval = 0
    /\ downloads = <<>>
    /\ arg = <<>>
    /\ ret = <<>>
    /\ prev = <<>>
    /\ calls = 0

Next ==
    \/ cli
    \/ log_in
    \/ get_all_the_cookies
    \/ get_uid
    \/ get_paystub_urls
    \/ needed_list
    \/ download_next

Spec == InitRun /\ [][Next]_vars

----------------------------------------------------------------------------
(* get_needed_paystubs() called on any dict and any filesystem *)

InitNeeded ==
    /\ pc = "call"
    /\ paystub_url_by_date \in {DictOf(l) : l \in Listings}
    /\ fs \in Filesystems(CandidatePaths \cup {StrayPath})
    /\ fs0 = fs
    /\ fsBefore = fs
    /\ session = "open"
    /\ cookies = {}
    /\ requests = <<>>
    /\ credentials = <<>>
    /\ need = <<>>
    /\ idx = 0
    /\ out = <<>>
    /\ exc = "none"
    /\ retval = 0
    /\ downloads = <<>>
    /\ arg = <<>>
    /\ ret = <<>>
    /\ prev = <<>>
    /\ calls = 0

CallGetNeeded ==
    /\ pc = "call"
    /\ ret' = get_needed_paystubs(paystub_url_by_date, fs)
    /\ pc' = "returned"
    /\ calls' = calls + 1
    /\ UNCHANGED <<fs, session, cookies, requests, credentials, paystub_url_by_date,
                   need, idx, out, exc, retval, fs0, fsBefore, downloads, arg, prev>>

NextNeeded == CallGetNeeded

SpecNeeded == InitNeeded /\ [][NextNeeded]_vars

----------------------------------------------------------------------------
(* _transform_download_url(url) called on any URL, in any session state *)

InitTransform ==
    /\ pc = "call"
    /\ arg \in UrlInputs
    /\ cookies \in SUBSET {"idtoken"}
    /\ fs = <<>>
    /\ fs0 = fs
    /\ fsBefore = fs
    /\ session = "open"
    /\ requests = <<>>
    /\ credentials = <<>>
    /\ paystub_url_by_date = <<>>
    /\ need = <<>>
    /\ idx = 0
    /\ out = <<>>
    /\ exc = "none"
    /\ retval = 0
    /\ downloads = <<>>
    /\ ret = <<>>
    /\ prev = <<>>
    /\ calls = 0

CallTransform ==
    /\ pc = "call"
    /\ ret' = _transform_download_url(arg)
    /\ pc' = "returned"
    /\ calls' = calls + 1
    /\ UNCHANGED <<fs, session, cookies, requests, credentials, paystub_url_by_date,
                   need, idx, out, exc, retval, fs0, fsBefore, downloads, arg, prev>>

\* the result is passed in again
ReapplyTransform ==
    /\ pc = "returned"
    /\ calls < MaxCalls
    /\ prev' = <<arg, ret>>
    /\ arg' = ret
    /\ pc' = "call"
    /\ UNCHANGED <<fs, session, cookies, requests, credentials, paystub_url_by_date,
                   need, idx, out, exc, retval, fs0, fsBefore, downloads, ret, calls>>

\* the same URL is passed in again after the session has changed
RepeatTransform ==
    /\ pc = "returned"
    /\ calls < MaxCalls
    /\ prev' = <<arg, ret>>
    /\ cookies' = IF "SMSESSION" \in cookies
                  THEN cookies \ {"SMSESSION"} ELSE cookies \cup {"SMSESSION"}
    /\ pc' = "call"
    /\ UNCHANGED <<fs, session, requests, credentials, paystub_url_by_date,
                   need, idx, out, exc, retval, fs0, fsBefore, downloads, arg, ret,
                   calls>>

NextTransform ==
    \/ CallTransform
    \/ ReapplyTransform
    \/ RepeatTransform

SpecTransform == InitTransform /\ [][NextTransform]_vars

----------------------------------------------------------------------------
(* download_paystub(date, url) called on any filesystem *)

InitDownload ==
    /\ pc = "call"
    /\ arg \in Dates \X Urls
    /\ fs \in Filesystems(CandidatePaths)
    /\ fs0 = fs
    /\ fsBefore = fs
    /\ session = "open"
    /\ cookies = {}
    /\ requests = <<>>
    /\ credentials = <<>>
    /\ paystub_url_by_date = <<>>
    /\ need = <<>>
    /\ idx = 0
    /\ out = <<>>
    /\ exc = "none"
    /\ retval = 0
    /\ downloads = <<>>
    /\ ret = <<>>
    /\ prev = <<>>
    /\ calls = 0

CallDownload ==
    /\ pc = "call"
    /\ download_paystub(arg[1], arg[2], Statuses, Bodies)
    /\ pc' = IF exc' = "none" THEN "returned" ELSE "raised"
    /\ calls' = calls + 1
    /\ UNCHANGED <<session, cookies, credentials, paystub_url_by_date, need, idx,
                   retval, fs0, fsBefore, arg, ret, prev>>

NextDownload == CallDownload

SpecDownload == InitDownload /\ [][NextDownload]_vars

----------------------------------------------------------------------------
(* Properties *)

Last(q) == q[Len(q)]

Range(q) == {q[i] : i \in 1..Len(q)}

\* C1: get_needed_paystubs() returns exactly the (date, url) items of the dict
\* whose date has a file neither at '<date>.pdf' nor at '<year>/<date>.pdf'.
C1_NeededExactlyMissing ==
    pc = "returned" =>
        Range(ret) = {it \in Range(paystub_url_by_date) :
                        /\ CwdPath(it[1]) \notin DOMAIN fs
                        /\ YearPath(it[1]) \notin DOMAIN fs}

\* one date kept out by the working directory, one by its year folder, one
\* needed although a copy of it lies under another year
C1_Witness ==
    /\ pc = "returned"
    /\ Len(paystub_url_by_date) = 3
    /\ CwdPath(Date1) \in DOMAIN fs /\ YearPath(Date1) \notin DOMAIN fs
    /\ CwdPath(Date3) \notin DOMAIN fs /\ YearPath(Date3) \in DOMAIN fs
    /\ StrayPath \in DOMAIN fs
    /\ Len(ret) = 1 /\ ret[1][1] = Date2

\* C2: the list get_needed_paystubs() returns is in strictly ascending order of
\* date string, whatever the order of the dict.
C2_NeededSorted ==
    pc = "returned" =>
        \A i, j \in 1..Len(ret) : i < j => StrLess(ret[i][1], ret[j][1])

\* three needed dates that the dict holds in descending order
C2_Witness ==
    /\ pc = "returned"
    /\ Len(ret) = 3
    /\ StrLess(paystub_url_by_date[2][1], paystub_url_by_date[1][1])
    /\ StrLess(paystub_url_by_date[3][1], paystub_url_by_date[2][1])

\* 'https://my.adp.com/doc1'
ExampleRewritten ==
    <<"h", "t", "t", "p", "s", ":", "/", "/", "m", "y", ".", "a", "d", "p",
      ".", "c", "o", "m", "/", "d", "o", "c", "1">>

\* how many times '/l2' occurs in a URL
Occurrences(url) ==
    Cardinality({i \in 1..Len(url) :
                    i + Len(RelativePrefix) - 1 <= Len(url)
                    /\ SubSeq(url, i, i + Len(RelativePrefix) - 1) = RelativePrefix})

\* C3 as stated: a URL beginning with '/l2' gets the host put in front of it,
\* so that '/l2/doc1' becomes 'https://my.adp.com/l2/doc1'.
C3_HostPrepended ==
    (pc = "returned" /\ StartsWith(arg, RelativePrefix)) => ret = PortalHost \o arg

\* C3 amended: a URL beginning with '/l2' gets that prefix replaced by the host,
\* so that '/l2/doc1' becomes 'https://my.adp.com/doc1'; what follows the
\* prefix is kept as it is when '/l2' does not occur in it again, and every
\* further '/l2' is replaced by the host as well.
C3_PrefixReplaced ==
    (pc = "returned" /\ StartsWith(arg, RelativePrefix)) =>
        LET rest == SubSeq(arg, Len(RelativePrefix) + 1, Len(arg))
        IN  /\ arg = UrlRelative => ret = ExampleRewritten
            /\ StartsWith(ret, PortalHost)
            /\ ~Contains(rest, RelativePrefix) => ret = PortalHost \o rest
            /\ ~Contains(ret, RelativePrefix)
            /\ Len(ret) = Len(arg) + Occurrences(arg) * (Len(PortalHost) - Len(RelativePrefix))

C3_Witness ==
    /\ pc = "returned"
    /\ arg = UrlRelative
    /\ ret = ExampleRewritten

\* C4: a URL that does not begin with '/l2' comes back unchanged, also when the
\* result is passed in again, and the same URL gives the same result whatever
\* the cookies of the session are.
C4_UnchangedAndDeterministic ==
    pc = "returned" =>
        /\ ~StartsWith(arg, RelativePrefix) => ret = arg
        /\ (prev # <<>> /\ ~StartsWith(prev[1], RelativePrefix) /\ arg = prev[2])
                => ret = prev[1]
        /\ (prev # <<>> /\ prev[1] = arg) => ret = prev[2]

\* a URL holding '/l2' after its first character, transformed a second time
C4_Witness ==
    /\ pc = "returned"
    /\ calls >= 2
    /\ prev # <<>>
    /\ ~StartsWith(arg, RelativePrefix)
    /\ Contains(arg, RelativePrefix)

\* 'Got back '
GotBackWords == <<"G", "o", "t", " ", "b", "a", "c", "k", " ">>

\* C5: a download answered with a status other than 200 leaves the filesystem
\* as it was, prints one line holding the status, the date and the requested
\* URL, and returns without raising.
C5_BadStatusWritesNothing ==
    (pc # "call" /\ downloads # <<>> /\ Last(downloads).status \notin {0, 200}) =>
        /\ fs = fs0
        /\ pc = "returned"
        /\ exc = "none"
        /\ Len(out) = 1
        /\ StartsWith(out[1], GotBackWords)
        /\ Contains(out[1], IntToStr(Last(downloads).status))
        /\ Contains(out[1], arg[1])
        /\ Contains(out[1], Last(requests).url)

\* status 201 while '<date>.pdf' is there already
C5_Witness ==
    /\ pc = "returned"
    /\ Last(downloads).status = 201
    /\ CwdPath(arg[1]) \in DOMAIN fs

\* 'Downloaded '
DownloadedWords == <<"D", "o", "w", "n", "l", "o", "a", "d", "e", "d", " ">>

\* C6: a download answered with 200 that returns leaves '<date>.pdf' holding
\* exactly the response body, whatever it held before, and prints a
\* confirmation line.
C6_OkWritesBody ==
    (pc = "returned" /\ Last(downloads).status = 200) =>
        /\ CwdPath(arg[1]) \in DOMAIN fs
        /\ fs[CwdPath(arg[1])] = Last(downloads).body
        /\ out = <<DownloadedWords \o CwdPath(arg[1])>>

\* the file was there before, with other content
C6_Witness ==
    /\ pc = "returned"
    /\ Last(downloads).status = 200
    /\ CwdPath(arg[1]) \in DOMAIN fs0
    /\ fs0[CwdPath(arg[1])] # fs[CwdPath(arg[1])]

\* C7: without a credentials file cli prints its error and returns -1; no
\* session is created, no request is issued and no file is written.
C7_NoCredsNoNetwork ==
    DefaultCreds \notin DOMAIN fs0 =>
        /\ pc \in {"cli", "done"}
        /\ session = "none"
        /\ requests = <<>>
        /\ fs = fs0
        /\ pc = "done" => (out = <<CouldntFindCreds>> /\ retval = -1 /\ exc = "none")

C7_Witness ==
    /\ DefaultCreds \notin DOMAIN fs0
    /\ pc = "done"
    /\ CwdPath(Date1) \in DOMAIN fs

\* C8: the download requests are those of the needed list, one each, in its
\* ascending order of date; a status other than 200 never ends the run, and a
\* run that completes has requested every item.
C8_EveryItemRequested ==
    LET n == Len(downloads)
    IN  /\ n <= Len(need)
        /\ \A i \in 1..n : downloads[i].date = need[i][1]
        /\ \A i, j \in 1..n : i < j => StrLess(downloads[i].date, downloads[j].date)
        /\ Cardinality({i \in 1..Len(requests) : "stream" \in DOMAIN requests[i]}) = n
        /\ pc = "download_paystub" => idx = n + 1
        /\ (n > 0 /\ Last(downloads).status \notin {0, 200}) =>
                (pc # "aborted" /\ exc = "none")
        /\ (pc = "done" /\ session = "closed") => n = Len(need)

\* a completed run of three items whose first two were refused
C8_Witness ==
    /\ pc = "done"
    /\ Len(need) = 3
    /\ Len(downloads) = 3
    /\ downloads[1].status = 404
    /\ downloads[2].status = 404
    /\ downloads[3].status = 200

SetupRequests ==
    << [method |-> "POST", url |-> LOGIN_URL],
       [method |-> "GET", url |-> LANDING_URL],
       [method |-> "GET", url |-> UID_LOOKUP_URL],
       [method |-> "GET", url |-> PAYSTUB_LIST_URL] >>

\* C9: the requests are the login POST, the landing GET, the identity GET and
\* the listing GET, once each and in that order, before the existence check
\* and any download; the identity stage adds the two cookies; a stage that
\* raises is the last one, with no download and no file written.
C9_StagesInOrder ==
    /\ \A i \in 1..Len(requests) :
            IF i <= 4
            THEN /\ requests[i].method = SetupRequests[i].method
                 /\ requests[i].url = SetupRequests[i].url
                 /\ "stream" \notin DOMAIN requests[i]
            ELSE "stream" \in DOMAIN requests[i]
    /\ pc = "log_in" => Len(requests) = 0
    /\ pc = "get_all_the_cookies" => Len(requests) = 1
    /\ pc = "get_uid" => Len(requests) = 2
    /\ pc = "get_paystub_urls" => Len(requests) = 3
    /\ pc = "get_needed_paystubs" => Len(requests) = 4
    /\ (idx > 0 \/ downloads # <<>> \/ fs # fs0) =>
            (Len(requests) >= 4 /\ {"idtoken", "ADPLangLocalCookie"} \subseteq cookies)
    /\ {"idtoken", "ADPLangLocalCookie"} \cap cookies # {} =>
            (Len(requests) >= 3 /\ {"idtoken", "ADPLangLocalCookie"} \subseteq cookies)
    /\ Len(requests) >= 4 /\ pc # "aborted" =>
            {"idtoken", "ADPLangLocalCookie"} \subseteq cookies
    /\ (pc = "aborted" /\ Len(requests) <= 4) =>
            (idx = 0 /\ downloads = <<>> /\ fs = fs0 /\ need = <<>>)

\* the listing stage raises on a body that is no JSON
C9_Witness ==
    /\ pc = "aborted"
    /\ exc = "JSONDecodeError"
    /\ Len(requests) = 4
    /\ "idtoken" \in cookies

\* C10: a run creates or changes only '<date>.pdf' in the working directory,
\* for needed dates answered with 200; nothing under a year folder; a file
\* that was at a candidate path when the needed list was computed keeps its
\* content; after a run whose downloads were all answered 200, every date of
\* the listing has a file at a candidate path, so a second run needs nothing.
C10_OnlyNeededFilesWritten ==
    /\ DOMAIN fs0 \subseteq DOMAIN fs
    /\ \A p \in DOMAIN fs :
            \/ p \in DOMAIN fs0 /\ fs[p] = fs0[p]
            \/ \E i \in 1..Len(downloads) :
                    /\ downloads[i].status = 200
                    /\ downloads[i].date = need[i][1]
                    /\ p = CwdPath(downloads[i].date)
    /\ \A d \in Dates :
            YearPath(d) \in DOMAIN fs =>
                (YearPath(d) \in DOMAIN fs0 /\ fs[YearPath(d)] = fs0[YearPath(d)])
    /\ idx > 0 =>
            \A it \in Range(paystub_url_by_date) :
                \A p \in {CwdPath(it[1]), YearPath(it[1])} \cap DOMAIN fsBefore :
                    p \in DOMAIN fs /\ fs[p] = fsBefore[p]
    /\ (pc = "done" /\ idx > 0 /\ \A i \in 1..Len(downloads) : downloads[i].status = 200) =>
            \A it \in Range(paystub_url_by_date) :
                CwdPath(it[1]) \in DOMAIN fs \/ YearPath(it[1]) \in DOMAIN fs

\* a completed run that fetched two paystubs and left alone a third one, which
\* was in the working directory
C10_Witness ==
    /\ pc = "done"
    /\ Len(paystub_url_by_date) = 3
    /\ Len(downloads) = 2
    /\ \A i \in 1..2 : downloads[i].status = 200
    /\ \E it \in Range(paystub_url_by_date) : CwdPath(it[1]) \in DOMAIN fsBefore

====
